---------------------------- MODULE Spec2Model ----------------------------
(***************************************************************************)
(* Lazy Spy content script (class ImageLoadingOptimizer) as a state        *)
(* machine: loading-strategy classification, aggregate counters and the    *)
(* LCP tracker with its timers.  Time is counted in ticks of 500 ms, the   *)
(* greatest common divisor of the script's timer delays.                   *)
(***************************************************************************)
EXTENDS Integers, Sequences, FiniteSets, TLC

(***************************************************************************)
(* Bounds of the model.                                                    *)
(***************************************************************************)
MaxToggles == 3
MaxPaints == 2
MaxMarks == 3

(***************************************************************************)
(* Timer delays of the script, in ticks of 500 ms.                         *)
(***************************************************************************)
ToggleSettleTicks == 3
AnalyzeSettleTicks == 2
FinalizeTicks == 10
PollTicks == 4
PollStopTicks == 30

(***************************************************************************)
(* The page and its environment.  An element is a record of the DOM        *)
(* properties the script reads.                                            *)
(***************************************************************************)
Env ==
  [ innerHeight |-> 800, devicePixelRatio |-> 2, serviceWorker |-> TRUE,
    intersectionObserver |-> TRUE, ioInScripts |-> FALSE,
    lazySizesGlobal |-> FALSE, lozadGlobal |-> FALSE, lazyLoadGlobal |-> FALSE,
    scriptLibraries |-> {}, connectionTenths |-> 10 ]

BaseEl ==
  [ id |-> "none", tag |-> "IMG", src |-> "", currentSrc |-> "", ext |-> "none",
    cdn |-> "none", loading |-> "eager", fetchPriority |-> "auto",
    decoding |-> "auto", width |-> 0, height |-> 0, naturalWidth |-> 0,
    naturalHeight |-> 0, top |-> 0, rectW |-> 0, rectH |-> 0,
    hasParent |-> TRUE, parentTop |-> 0, attrs |-> {}, classes |-> {},
    widthAttr |-> FALSE, heightAttr |-> FALSE, transferSize |-> 0,
    hasRect |-> TRUE, bgUrl |-> "", carouselVisits |-> 0,
    inClosestCarousel |-> FALSE, inPicture |-> FALSE ]

Hero ==
  [BaseEl EXCEPT !.id = "hero", !.src = "hero.jpg", !.currentSrc = "hero.jpg",
     !.ext = "jpg", !.width = 600, !.height = 400, !.naturalWidth = 1200,
     !.naturalHeight = 800, !.rectW = 600, !.rectH = 400,
     !.widthAttr = TRUE, !.heightAttr = TRUE]

LazyA ==
  [BaseEl EXCEPT !.id = "lazyA", !.src = "a.png", !.currentSrc = "a.png",
     !.ext = "png", !.loading = "lazy", !.decoding = "async", !.width = 400,
     !.height = 300, !.naturalWidth = 800, !.naturalHeight = 600, !.top = 100,
     !.parentTop = 100, !.rectW = 400, !.rectH = 300, !.widthAttr = TRUE,
     !.heightAttr = TRUE, !.attrs = {"srcset"}]

Icon ==
  [BaseEl EXCEPT !.id = "icon", !.src = "icon.png", !.currentSrc = "icon.png",
     !.ext = "png", !.width = 40, !.height = 40, !.naturalWidth = 40,
     !.naturalHeight = 40, !.top = 1200, !.parentTop = 1200, !.rectW = 40,
     !.rectH = 40, !.widthAttr = TRUE, !.heightAttr = TRUE]

JsLazy ==
  [BaseEl EXCEPT !.id = "jsLazy", !.src = "j.webp", !.currentSrc = "j.webp",
     !.ext = "webp", !.loading = "auto", !.width = 300, !.height = 200,
     !.top = 1500, !.parentTop = 1500, !.rectW = 300, !.rectH = 200,
     !.widthAttr = TRUE, !.heightAttr = TRUE,
     !.attrs = {"data-src"}, !.classes = {"lazyload", "lozad"}]

SvgLogo ==
  [BaseEl EXCEPT !.id = "svg", !.tag = "IMAGE", !.src = "logo.svg",
     !.ext = "svg", !.width = 200, !.height = 100, !.rectW = 200, !.rectH = 100]

Banner ==
  [BaseEl EXCEPT !.id = "bg", !.tag = "DIV", !.bgUrl = "banner.jpg",
     !.ext = "jpg", !.width = 800, !.height = 300, !.rectW = 800, !.rectH = 300,
     !.carouselVisits = 2, !.inClosestCarousel = TRUE]

Promo ==
  [BaseEl EXCEPT !.id = "promo", !.src = "pre.jpg", !.currentSrc = "pre.jpg",
     !.ext = "jpg", !.width = 200, !.height = 100, !.naturalWidth = 200,
     !.naturalHeight = 100, !.top = 500, !.parentTop = 500, !.rectW = 200,
     !.rectH = 100, !.widthAttr = TRUE, !.heightAttr = TRUE,
     !.transferSize = 30000]

Headline ==
  [BaseEl EXCEPT !.id = "text", !.tag = "H1", !.rectW = 500, !.rectH = 60]

\* the page of the reference scenario, in document order
FullPage == <<Hero, LazyA, Icon, JsLazy, Promo, SvgLogo, Banner, Headline>>

VARIABLE dom          \* the document: its elements in document order

\* what document.querySelectorAll returns, in document order
PageSeq == dom

Elements == {PageSeq[i].id : i \in 1..Len(PageSeq)}

Dom(e) == LET i == CHOOSE j \in 1..Len(PageSeq) : PageSeq[j].id = e IN PageSeq[i]

NoElement == "null"

\* link[rel=preload][as=image] hrefs found in the head
PagePreloads == {"pre.jpg"}

(***************************************************************************)
(* JavaScript values.  A file size is the string "<n>KB" / "<n>MB", a      *)
(* number of KB, the string 'Unknown' or null; an optional number is the   *)
(* empty sequence (null) or a one-element sequence.                        *)
(***************************************************************************)
SizeStr(n, u) == [t |-> "str", n |-> n, u |-> u]
SizeNum(n) == [t |-> "num", n |-> n, u |-> ""]
SizeUnknown == [t |-> "str", n |-> 0, u |-> "Unknown"]
SizeNull == [t |-> "null", n |-> 0, u |-> ""]

Null == <<>>
Some(v) == <<v>>

\* Math.round(p / q) for p >= 0, q > 0
Round(p, q) == (2 * p + q) \div (2 * q)

\* `${kb}KB` or `${Math.round(kb / 1024)}MB`
FormatKB(kb) == IF kb > 1024 THEN SizeStr(Round(kb, 1024), "MB") ELSE SizeStr(kb, "KB")

\* JavaScript truthiness of a file size value
Truthy(fs) ==
  CASE fs.t = "str" -> TRUE
    [] fs.t = "num" -> fs.n # 0
    [] OTHER -> FALSE

\* Number(fs) is a number (not NaN) only for a numeric value
IsNumber(fs) == fs.t = "num"

\* parseFloat(fs) || 100
ParseFloatOr100(fs) ==
  CASE fs.t = "num" -> IF fs.n = 0 THEN 100 ELSE fs.n
    [] fs.t = "str" /\ fs.u # "Unknown" -> IF fs.n = 0 THEN 100 ELSE fs.n
    [] OTHER -> 100

Rec(k, n) == [k |-> k, n |-> n]

(***************************************************************************)
(* LibraryPatternMatcher: detectJSLazyLoading                              *)
(***************************************************************************)
Pat(kind, name, library, priority) ==
  [kind |-> kind, name |-> name, library |-> library, priority |-> priority]

libraryPatterns ==
  << Pat("attr", "data-src", "lazysizes", 1),
     Pat("attr", "data-srcset", "lazysizes", 1),
     Pat("attr", "data-sizes", "lazysizes", 1),
     Pat("class", "lazyload", "lazysizes", 1),
     Pat("class", "lazyloaded", "lazysizes", 1),
     Pat("attr", "data-src", "lozad", 2),
     Pat("class", "lozad", "lozad", 2),
     Pat("class", "react-lazy-load", "react-lazy-load", 3),
     Pat("attr", "data-lazy", "react-lazy-load", 3),
     Pat("class", "v-lazy", "vue-lazyload", 4),
     Pat("class", "v-lazy-container", "vue-lazyload", 4),
     Pat("attr", "data-lazy", "custom", 5),
     Pat("attr", "data-original", "custom", 5),
     Pat("class", "lazy", "custom", 5),
     Pat("class", "lazy-image", "custom", 5),
     Pat("class", "lazy-load", "custom", 5) >>

PatternDetected(p, attrs, classes) ==
  \/ p.kind = "attr" /\ p.name \in attrs
  \/ p.kind = "class" /\ p.name \in classes

\* the for-loop pushing every detected pattern, in declaration order
MatchedPatterns(attrs, classes) ==
  SelectSeq(libraryPatterns, LAMBDA p : PatternDetected(p, attrs, classes))

\* the comparator reversed: higher rank first
ComparePriorityDescending(a, b) == b.priority - a.priority

\* comparator of detectedLibraries.sort: (a, b) => a.priority - b.priority
ComparePriority(a, b) == a.priority - b.priority

RECURSIVE InsertStable(_, _)
\* x goes after every element that does not compare greater than it
InsertStable(x, sorted) ==
  IF sorted = <<>> THEN <<x>>
  ELSE IF ComparePriority(Head(sorted), x) <= 0
       THEN <<Head(sorted)>> \o InsertStable(x, Tail(sorted))
       ELSE <<x>> \o sorted

RECURSIVE StableSort(_)
\* Array.prototype.sort is stable
StableSort(seq) ==
  IF seq = <<>> THEN <<>>
  ELSE InsertStable(seq[Len(seq)], StableSort(SubSeq(seq, 1, Len(seq) - 1)))

NoLibrary == "null"

\* result: the library name (or null) and the updated detectedLibraries set
detectJSLazyLoading(img, env, detected) ==
  LET matched == MatchedPatterns(img.attrs, img.classes) IN
  IF Len(matched) > 0
  THEN LET primaryLibrary == StableSort(matched)[1].library IN
       [library |-> primaryLibrary, detected |-> detected \cup {primaryLibrary}]
  ELSE IF env.lazySizesGlobal
  THEN [library |-> "lazysizes", detected |-> detected \cup {"lazysizes"}]
  ELSE IF env.lozadGlobal
  THEN [library |-> "lozad", detected |-> detected \cup {"lozad"}]
  ELSE IF env.lazyLoadGlobal
  THEN [library |-> "lazyload", detected |-> detected \cup {"lazyload"}]
  ELSE IF /\ env.intersectionObserver
          /\ (img.loading = "lazy" \/ "data-src" \in img.attrs)
          /\ env.ioInScripts
  THEN [library |-> "intersection-observer",
        detected |-> detected \cup {"intersection-observer"}]
  ELSE [library |-> NoLibrary, detected |-> detected]

(***************************************************************************)
(* Geometry and file size                                                  *)
(***************************************************************************)
getImagePosition(img, env) ==
  IF img.hasParent
  THEN IF img.parentTop < env.innerHeight THEN "above-fold" ELSE "below-fold"
  ELSE IF img.hasRect
  THEN IF img.top < env.innerHeight THEN "above-fold" ELSE "below-fold"
  ELSE "unknown"

\* new URL(img.currentSrc || img.src, location.href).href
ResolvedUrl(img) == IF img.currentSrc # "" THEN img.currentSrc ELSE img.src

\* img.src || img.currentSrc
SrcKey(img) == IF img.src # "" THEN img.src ELSE img.currentSrc

\* Math.round(pixels * bytesPerPixel / 1024) of estimateFileSize
EstimatedSize(img, pixels) ==
  CASE img.ext \in {"webp", "avif"} -> Round(pixels, 10240)
    [] img.ext = "png" -> Round(3 * pixels, 10240)
    [] img.ext \in {"jpg", "jpeg"} -> Round(2 * pixels, 10240)
    [] OTHER -> Round(pixels, 4096)

\* result: the returned value and the updated fileSizeCache
estimateFileSize(img, cache) ==
  LET url == ResolvedUrl(img)
      width == IF img.naturalWidth # 0 THEN img.naturalWidth ELSE img.width
      height == IF img.naturalHeight # 0 THEN img.naturalHeight ELSE img.height
      estimatedSize == EstimatedSize(img, width * height)
  IN
  IF img.transferSize > 0
  THEN [val |-> FormatKB(Round(img.transferSize, 1024)), cache |-> cache]
  ELSE IF url \in DOMAIN cache
  THEN [val |-> cache[url], cache |-> cache]
  ELSE IF width # 0 /\ height # 0 /\ estimatedSize > 0
  THEN [val |-> FormatKB(estimatedSize),
        cache |-> cache @@ (url :> FormatKB(estimatedSize))]
  ELSE [val |-> SizeUnknown, cache |-> cache]

\* Math.round(naturalWidth * naturalHeight * bytesPerPixel * 0.1 / 1024)
EstimatedKB(img) ==
  LET pixels == img.naturalWidth * img.naturalHeight IN
  CASE img.ext = "png" -> Round(4 * pixels, 10240)
    [] img.ext = "webp" -> Round(35 * pixels, 102400)
    [] img.ext = "avif" -> Round(25 * pixels, 102400)
    [] OTHER -> Round(3 * pixels, 10240)

getFileSize(img, cache) ==
  LET src == SrcKey(img) IN
  IF src = "" THEN [val |-> SizeNull, cache |-> cache]
  ELSE IF src \in DOMAIN cache THEN [val |-> cache[src], cache |-> cache]
  ELSE IF img.naturalWidth # 0 /\ img.naturalHeight # 0
  THEN [val |-> SizeNum(EstimatedKB(img)),
        cache |-> cache @@ (src :> SizeNum(EstimatedKB(img)))]
  ELSE [val |-> SizeNull, cache |-> cache]

(***************************************************************************)
(* StrategyClassifier                                                      *)
(***************************************************************************)
\* the object literal at the head of detectLoadingStrategy
NewData(img, position, fileSize) ==
  [ id |-> img.id, src |-> img.src, loading |-> img.loading,
    fetchPriority |-> img.fetchPriority, decoding |-> img.decoding,
    strategy |-> "unknown", library |-> NoLibrary, isLCP |-> FALSE,
    isPreloaded |-> FALSE, hasDimensions |-> (img.width # 0 /\ img.height # 0),
    position |-> position, fileSize |-> fileSize, recommendations |-> <<>>,
    isAboveFold |-> FALSE, hasAboveFoldLazyIssue |-> FALSE, lcpValue |-> Null,
    isBackgroundImage |-> FALSE, isCarousel |-> FALSE ]

generateRecommendations(data) ==
  (IF ~data.hasDimensions THEN <<Rec("dimensions", <<>>)>> ELSE <<>>)
  \o (IF data.strategy = "lazy" /\ data.position = "above-fold"
      THEN <<Rec("lazy-above-fold", <<>>)>> ELSE <<>>)
  \o (IF data.strategy = "eager" /\ data.position = "below-fold"
      THEN <<Rec("eager-below-fold", <<>>)>> ELSE <<>>)
  \o (IF data.isLCP /\ ~data.isPreloaded
      THEN <<Rec("preload-lcp", <<>>)>> ELSE <<>>)
  \o (IF data.fetchPriority # "high" /\ data.isLCP
      THEN <<Rec("fetchpriority-lcp", <<>>)>> ELSE <<>>)
  \o (IF data.decoding # "async"
      THEN <<Rec("decoding-async", <<>>)>> ELSE <<>>)

\* the first two tests in the other order
calculateOverallStrategyPreloadFirst(data) ==
  IF data.isPreloaded THEN "preload"
  ELSE IF data.isLCP THEN "lcp"
  ELSE IF data.library # NoLibrary /\ data.library # "none"
  THEN IF data.position = "below-fold" /\ data.hasDimensions THEN "optimized"
       ELSE IF ~data.hasDimensions \/ Len(data.recommendations) > 2 THEN "issue"
       ELSE "lazy"
  ELSE IF /\ data.strategy = "lazy"
          /\ data.position = "below-fold"
          /\ data.hasDimensions
  THEN "optimized"
  ELSE IF \/ ~data.hasDimensions
          \/ (data.strategy = "eager" /\ data.position = "below-fold")
          \/ Len(data.recommendations) > 2
  THEN "issue"
  ELSE data.strategy

calculateOverallStrategy(data) ==
  IF data.isLCP THEN "lcp"
  ELSE IF data.isPreloaded THEN "preload"
  ELSE IF data.library # NoLibrary /\ data.library # "none"
  THEN IF data.position = "below-fold" /\ data.hasDimensions THEN "optimized"
       ELSE IF ~data.hasDimensions \/ Len(data.recommendations) > 2 THEN "issue"
       ELSE "lazy"
  ELSE IF /\ data.strategy = "lazy"
          /\ data.position = "below-fold"
          /\ data.hasDimensions
  THEN "optimized"
  ELSE IF \/ ~data.hasDimensions
          \/ (data.strategy = "eager" /\ data.position = "below-fold")
          \/ Len(data.recommendations) > 2
  THEN "issue"
  ELSE data.strategy

\* if (this.preloadedImages.has(img.src))
MarkPreloaded(data, src, preloaded) ==
  IF src \in preloaded
  THEN [data EXCEPT !.isPreloaded = TRUE, !.strategy = "preload"] ELSE data

\* if (this.lcpCandidate === img)
MarkLCP(data, id, lcpCand) ==
  IF id = lcpCand THEN [data EXCEPT !.isLCP = TRUE, !.strategy = "lcp"] ELSE data

\* the loading attribute decides; detectJSLazyLoading runs only without it
JsLibrary(img, detected) ==
  IF img.loading \in {"lazy", "eager"}
  THEN [library |-> NoLibrary, detected |-> detected]
  ELSE detectJSLazyLoading(img, Env, detected)

ByLoading(data, loading, library) ==
  IF loading = "lazy" THEN [data EXCEPT !.strategy = "lazy", !.library = "native"]
  ELSE IF loading = "eager" THEN [data EXCEPT !.strategy = "eager"]
  ELSE IF library # NoLibrary
  THEN [data EXCEPT !.strategy = "lazy", !.library = library]
  ELSE [data EXCEPT !.strategy = "eager"]

\* data.recommendations = this.generateRecommendations(data)
WithRecommendations(data) ==
  [data EXCEPT !.recommendations = generateRecommendations(data)]

\* the record without the final re-labelling
WithOverallStrategyKept(data) == data

\* data.strategy = this.calculateOverallStrategy(data)
WithOverallStrategy(data) ==
  [data EXCEPT !.strategy = calculateOverallStrategy(data)]

\* detectLoadingStrategy once the file size fs and the library js are known
Classified(img, s, fs, js) ==
  [ data |-> WithOverallStrategy(WithRecommendations(
               ByLoading(
                 MarkLCP(
                   MarkPreloaded(NewData(img, getImagePosition(img, Env), fs.val),
                                 img.src, s.preloadedImages),
                   img.id, s.lcpCandidate),
                 img.loading, js.library))),
    s |-> [s EXCEPT !.fileSizeCache = fs.cache,
                    !.detectedLibraries = js.detected] ]

\* result: the record and the object state (file-size cache, detected set)
detectLoadingStrategy(img, s) ==
  Classified(img, s, estimateFileSize(img, s.fileSizeCache),
             JsLibrary(img, s.detectedLibraries))

(***************************************************************************)
(* OptimizationAnalyzer: the verdicts that become recommendations          *)
(***************************************************************************)
IsAboveFoldRect(img) == img.top < Env.innerHeight

analyzeMissingDimensions(img) ==
  IF ~img.widthAttr \/ ~img.heightAttr
  THEN <<Rec("add-width-height",
             <<IF img.rectW # 0 THEN img.rectW ELSE img.naturalWidth,
               IF img.rectH # 0 THEN img.rectH ELSE img.naturalHeight>>)>>
  ELSE <<>>

\* fileSize && !isNaN(fileSize) ? Math.round(fileSize * 0.4) : 0
EstimatedSavings(fileSize) ==
  IF Truthy(fileSize) /\ IsNumber(fileSize) THEN Round(4 * fileSize.n, 10) ELSE 0

FormatVerdict(savings) ==
  <<Rec("webp", IF savings # 0 THEN <<savings>> ELSE <<>>)>>

FormatResult(fs) ==
  [recs |-> FormatVerdict(EstimatedSavings(fs.val)), cache |-> fs.cache]

\* result: recommendations and the updated file-size cache
analyzeFormatOptimization(img, cache) ==
  IF SrcKey(img) = "" \/ img.ext \notin {"jpg", "jpeg", "png"}
  THEN [recs |-> <<>>, cache |-> cache]
  ELSE FormatResult(getFileSize(img, cache))

analyzeResponsiveImage(img) ==
  IF "srcset" \notin img.attrs /\ "data-srcset" \notin img.attrs
  THEN IF Env.devicePixelRatio > 1
       THEN <<Rec("srcset-high-dpi", <<Env.devicePixelRatio>>)>>
       ELSE <<Rec("srcset", <<>>)>>
  ELSE <<>>

\* Math.round(a / b) where the quotient may be Infinity (-1) or NaN (-2)
RoundRatio(a, b) == IF b # 0 THEN Round(a, b) ELSE IF a # 0 THEN 0 - 1 ELSE 0 - 2

DisplayWidth(img) == IF img.width # 0 THEN img.width ELSE img.rectW

DisplayHeight(img) == IF img.height # 0 THEN img.height ELSE img.rectH

FileSizeVerdict(img, fileSize) ==
  IF ~Truthy(fileSize) THEN <<>>
  ELSE IF \/ img.naturalWidth > DisplayWidth(img) * 2
          \/ img.naturalHeight > DisplayHeight(img) * 2
  THEN <<Rec("oversized",
             <<RoundRatio(img.naturalWidth, DisplayWidth(img)),
               DisplayWidth(img), DisplayHeight(img)>>)>>
  ELSE IF IsNumber(fileSize) /\ fileSize.n > 500
  THEN <<Rec("large-file", <<fileSize.n>>)>>
  ELSE <<>>

FileSizeResult(img, fs) ==
  [recs |-> FileSizeVerdict(img, fs.val), cache |-> fs.cache]

analyzeFileSizeOptimization(img, cache) ==
  FileSizeResult(img, getFileSize(img, cache))

analyzeCDN(img) ==
  IF SrcKey(img) # "" /\ img.cdn # "none" THEN <<Rec("cdn:" \o img.cdn, <<>>)>>
  ELSE <<>>

\* the hero score with the above-fold weight of 2
heroScoreEvenWeights(img) ==
  (IF IsAboveFoldRect(img) THEN 2 ELSE 0)
  + (IF img.naturalWidth >= 800 /\ img.naturalHeight >= 600 THEN 2 ELSE 0)
  + (IF img.rectW >= 400 /\ img.rectH >= 300 THEN 2 ELSE 0)
  + (IF img.fetchPriority = "high" THEN 1 ELSE 0)

heroScore(img) ==
  (IF IsAboveFoldRect(img) THEN 3 ELSE 0)
  + (IF img.naturalWidth >= 800 /\ img.naturalHeight >= 600 THEN 2 ELSE 0)
  + (IF img.rectW >= 400 /\ img.rectH >= 300 THEN 2 ELSE 0)
  + (IF img.fetchPriority = "high" THEN 1 ELSE 0)

\* the object analyzeHeroImage returns
HeroResult(score, shouldPreload) ==
  IF score >= 5
  THEN [isHero |-> TRUE, score |-> score, shouldPreload |-> shouldPreload]
  ELSE [isHero |-> FALSE]

heroImageAnalysis(img, preloaded) == HeroResult(heroScore(img), img.src \notin preloaded)

analyzeHeroImage(img, preloaded) ==
  IF heroScore(img) >= 5 /\ img.src \notin preloaded
  THEN <<Rec("hero-preload", <<>>)>> ELSE <<>>

analyzeFetchPriority(img, lcpCand) ==
  LET isLCP == img.id = lcpCand IN
  IF IsAboveFoldRect(img) /\ img.fetchPriority # "high" /\ ~isLCP
  THEN <<Rec("fetchpriority-high:above-fold", <<>>)>>
  ELSE IF isLCP /\ img.fetchPriority # "high"
  THEN <<Rec("fetchpriority-high:lcp", <<>>)>>
  ELSE <<>>

analyzePreloadOpportunity(img, preloaded) ==
  IF /\ IsAboveFoldRect(img)
     /\ (img.naturalWidth >= 800 \/ img.naturalHeight >= 600)
     /\ img.src \notin preloaded
  THEN <<Rec("preload-link", <<>>)>> ELSE <<>>

analyzeServiceWorker == IF Env.serviceWorker THEN <<Rec("service-worker", <<>>)>> ELSE <<>>

\* analyzeImageOptimization followed by addOptimizationRecommendations:
\* the verdicts are computed in the order of the object literal (the two
\* getFileSize calls share the cache) and pushed in the order of the pushes
PushedRecommendations(img, s, fmt, siz) ==
  [ recs |-> analyzeMissingDimensions(img)
             \o fmt.recs
             \o analyzeResponsiveImage(img)
             \o siz.recs
             \o analyzeHeroImage(img, s.preloadedImages)
             \o analyzeFetchPriority(img, s.lcpCandidate)
             \o analyzePreloadOpportunity(img, s.preloadedImages)
             \o analyzeCDN(img)
             \o analyzeServiceWorker,
    cache |-> siz.cache ]

AfterFormat(img, s, fmt) ==
  PushedRecommendations(img, s, fmt, analyzeFileSizeOptimization(img, fmt.cache))

OptimizationRecommendations(img, s) ==
  AfterFormat(img, s, analyzeFormatOptimization(img, s.fileSizeCache))

(***************************************************************************)
(* AggregateCounters                                                       *)
(***************************************************************************)
ZeroCounters(lcp) ==
  [ totalImages |-> 0, lazyLoaded |-> 0, eagerLoaded |-> 0, optimized |-> 0,
    issues |-> 0, lcpCandidates |-> 0, lcpValue |-> lcp, preloaded |-> 0 ]

\* lcpValue: null instead of the preserved measurement
resetPerformanceDataDropsLCP(s) ==
  [s EXCEPT !.performanceData = ZeroCounters(Null)]

resetPerformanceData(s) ==
  [s EXCEPT !.performanceData = ZeroCounters(s.lcpValue)]

updatePerformanceData(pd, data) ==
  LET p0 == [pd EXCEPT !.totalImages = @ + 1] IN
  CASE data.strategy = "lazy" ->
         [p0 EXCEPT !.lazyLoaded = @ + 1,
                    !.issues = IF data.hasAboveFoldLazyIssue THEN @ + 1 ELSE @]
    [] data.strategy = "eager" -> [p0 EXCEPT !.eagerLoaded = @ + 1]
    [] data.strategy = "optimized" -> [p0 EXCEPT !.optimized = @ + 1]
    [] data.strategy = "issue" -> [p0 EXCEPT !.issues = @ + 1]
    [] data.strategy = "lcp" -> [p0 EXCEPT !.lcpCandidates = @ + 1]
    [] data.strategy = "preload" -> [p0 EXCEPT !.preloaded = @ + 1]
    [] OTHER -> p0

\* the message is serialised when sendMessage is called
notifyPopupOfLCPDetection(s) ==
  [s EXCEPT !.sent = @ + 1, !.lcpDetected = Append(@, s.performanceData)]

\* data is the record after Object.assign(data, updates)
updatePerformanceDataForUpdates(s, data, updates) ==
  IF updates.isLCP /\ ~data.isLCP
  THEN LET s1 == [s EXCEPT !.performanceData.lcpCandidates = @ + 1]
           s2 == IF updates.lcpValue # 0
                 THEN [s1 EXCEPT !.performanceData.lcpValue = Some(updates.lcpValue),
                                 !.lcpValue = Some(updates.lcpValue)]
                 ELSE s1
       IN notifyPopupOfLCPDetection(s2)
  ELSE s

updateImageData(s, imgId, updates) ==
  IF imgId \in DOMAIN s.images
  THEN LET data == [s.images[imgId] EXCEPT !.isLCP = updates.isLCP,
                                           !.lcpValue = Some(updates.lcpValue)]
           s1 == [s EXCEPT !.images[imgId] = data]
       IN updatePerformanceDataForUpdates(s1, data, updates)
  ELSE s

(***************************************************************************)
(* Page scan                                                               *)
(***************************************************************************)
\* if (isAboveFold && data.strategy === 'lazy')
FlagAboveFoldLazy(data, isAboveFold) ==
  IF isAboveFold /\ data.strategy = "lazy"
  THEN [data EXCEPT !.isAboveFold = isAboveFold,
                    !.recommendations = Append(@, Rec("issue-lazy-above-fold", <<>>)),
                    !.hasAboveFoldLazyIssue = TRUE]
  ELSE [data EXCEPT !.isAboveFold = isAboveFold]

\* this.images.set(img, data); this.updatePerformanceData(data)
StoreImage(s, id, data, cache) ==
  [s EXCEPT !.fileSizeCache = cache,
            !.images = @ @@ (id :> data),
            !.performanceData = updatePerformanceData(@, data)]

WithOptimization(s, id, data, opt) ==
  StoreImage(s, id, [data EXCEPT !.recommendations = @ \o opt.recs], opt.cache)

\* analyzeImage after detectLoadingStrategy returned r
AfterStrategy(img, r) ==
  WithOptimization(r.s, img.id,
                   FlagAboveFoldLazy(r.data, img.top < Env.innerHeight),
                   OptimizationRecommendations(img, r.s))

\* analyzeImage without its this.images.has(img) guard
analyzeImageUnguarded(img, s) == AfterStrategy(img, detectLoadingStrategy(img, s))

analyzeImage(img, s) ==
  IF img.id \in DOMAIN s.images THEN s
  ELSE AfterStrategy(img, detectLoadingStrategy(img, s))

\* the object handed to analyzeBackgroundImageElement for a background or
\* SVG element: no attributes, no geometry of its own
VirtualImg(el, src, withParent) ==
  [BaseEl EXCEPT !.id = el.id, !.tag = "DIV", !.src = src, !.ext = el.ext,
     !.width = el.width, !.height = el.height, !.naturalWidth = el.width,
     !.naturalHeight = el.height, !.hasParent = withParent,
     !.parentTop = el.top, !.hasRect = FALSE, !.transferSize = el.transferSize]

\* the object literal at the head of analyzeBackgroundImageElement
NewBackgroundData(virtualImg, fileSize, isCarousel) ==
  [NewData(virtualImg, getImagePosition(virtualImg, Env), fileSize)
     EXCEPT !.loading = "eager", !.fetchPriority = "null",
            !.decoding = "null", !.strategy = "eager",
            !.isBackgroundImage = TRUE, !.isCarousel = isCarousel]

WithBackgroundRecommendations(data) ==
  [data EXCEPT !.recommendations =
     Append(generateRecommendations(data), Rec("background-image", <<>>))]

\* this.backgroundImages.set(element, data); this.updatePerformanceData(data)
StoreBackground(s, id, data, cache) ==
  [s EXCEPT !.fileSizeCache = cache,
            !.backgroundImages = (id :> data) @@ @,
            !.performanceData = updatePerformanceData(@, data)]

BackgroundClassified(el, virtualImg, isCarousel, s, fs) ==
  StoreBackground(s, el.id,
    WithOverallStrategy(WithBackgroundRecommendations(
      MarkLCP(
        MarkPreloaded(NewBackgroundData(virtualImg, fs.val, isCarousel),
                      virtualImg.src, s.preloadedImages),
        el.id, s.lcpCandidate))),
    fs.cache)

analyzeBackgroundImageElement(el, virtualImg, isCarousel, s) ==
  BackgroundClassified(el, virtualImg, isCarousel, s,
                       estimateFileSize(virtualImg, s.fileSizeCache))

RECURSIVE analyzeImages(_, _)
\* images.forEach(img => this.analyzeImage(img)) over document.querySelectorAll('img')
analyzeImages(seq, s) ==
  IF seq = <<>> THEN s
  ELSE analyzeImages(Tail(seq),
                     IF Head(seq).tag = "IMG" THEN analyzeImage(Head(seq), s) ELSE s)

RECURSIVE analyzePictures(_, _)
\* pictures.forEach: the img of each picture element goes to analyzeImage
analyzePictures(seq, s) ==
  IF seq = <<>> THEN s
  ELSE analyzePictures(Tail(seq),
                       IF Head(seq).tag = "IMG" /\ Head(seq).inPicture
                       THEN analyzeImage(Head(seq), s) ELSE s)

\* analyzeCarousel for an img not yet in this.images: the record of
\* detectLoadingStrategy, marked isCarousel, is stored and counted
StoreCarouselImage(r, id) ==
  StoreImage(r.s, id, [r.data EXCEPT !.isCarousel = TRUE], r.s.fileSizeCache)

analyzeCarouselImage(img, s) ==
  IF img.id \in DOMAIN s.images THEN s
  ELSE StoreCarouselImage(detectLoadingStrategy(img, s), img.id)

RECURSIVE analyzeCarouselImages(_, _, _)
\* one pass over the img per analyzeCarousel call that reaches it
analyzeCarouselImages(img, visits, s) ==
  IF visits = 0 THEN s
  ELSE analyzeCarouselImages(img, visits - 1, analyzeCarouselImage(img, s))

RECURSIVE analyzeCarouselBackground(_, _, _)
\* one analyzeBackgroundImageElement(el, virtualImg, true) per analyzeCarousel
\* call that reaches the element
analyzeCarouselBackground(el, visits, s) ==
  IF visits = 0 THEN s
  ELSE analyzeCarouselBackground(el, visits - 1,
         analyzeBackgroundImageElement(el, VirtualImg(el, el.bgUrl, TRUE), TRUE, s))

RECURSIVE detectCarouselImages(_, _)
\* per analyzeCarousel call that reaches an element: an img goes through the
\* guarded branch, a background-image element is analysed again
detectCarouselImages(seq, s) ==
  IF seq = <<>> THEN s
  ELSE detectCarouselImages(Tail(seq),
         IF Head(seq).tag = "IMG" /\ Head(seq).carouselVisits > 0
         THEN analyzeCarouselImages(Head(seq), Head(seq).carouselVisits, s)
         ELSE IF Head(seq).bgUrl # "" /\ Head(seq).carouselVisits > 0
         THEN analyzeCarouselBackground(Head(seq), Head(seq).carouselVisits, s)
         ELSE s)

RECURSIVE detectBackgroundImages(_, _)
detectBackgroundImages(seq, s) ==
  IF seq = <<>> THEN s
  ELSE detectBackgroundImages(Tail(seq),
         IF Head(seq).bgUrl # "" /\ ~Head(seq).inClosestCarousel
         THEN analyzeBackgroundImageElement(
                Head(seq), VirtualImg(Head(seq), Head(seq).bgUrl, FALSE), FALSE, s)
         ELSE s)

\* the synchronous part of analyzePage; its settle timer is armed by Toggle
analyzePage(s) ==
  detectBackgroundImages(PageSeq,
    detectCarouselImages(PageSeq,
      analyzePictures(PageSeq, analyzeImages(PageSeq, s))))

(***************************************************************************)
(* LibraryDetector.detectLibraries as used by detectLibrariesOnPage        *)
(***************************************************************************)
PageAttrs == UNION {PageSeq[i].attrs : i \in 1..Len(PageSeq)}

Detected(cond, name) == IF cond THEN {name} ELSE {}

DetectorResults ==
  Detected(\/ Env.lazySizesGlobal \/ "lazysizes" \in Env.scriptLibraries
           \/ PageAttrs \cap {"data-src", "data-srcset", "data-sizes"} # {},
           "lazysizes")
  \cup Detected(\/ Env.lozadGlobal \/ "lozad" \in Env.scriptLibraries
                \/ "data-src" \in PageAttrs,
                "lozad")
  \cup Detected(PageAttrs \cap {"data-lazy", "lazy-load", "lazy-image", "data-original"} # {},
                "custom")
  \cup Detected(\/ "react-lazy-load" \in Env.scriptLibraries
                \/ PageAttrs \cap {"react-lazy-load", "data-lazy"} # {},
                "react-lazy-load")
  \cup Detected(\/ "vue-lazyload" \in Env.scriptLibraries
                \/ PageAttrs \cap {"v-lazy", "v-lazy-container"} # {},
                "vue-lazyload")
  \cup Detected(Env.intersectionObserver /\ Env.ioInScripts, "intersection-observer")
  \cup Detected(\E i \in 1..Len(PageSeq) :
                   PageSeq[i].tag = "IMG" /\ PageSeq[i].loading = "lazy",
                "native")

detectLibrariesOnPage(s) == [s EXCEPT !.detectedLibraries = DetectorResults]

(***************************************************************************)
(* LCPTracker                                                              *)
(***************************************************************************)
\* the guards at the head of the PerformanceObserver callback
ObserverAcceptsIgnoringFinalize(s) == s.isActive

ObserverAccepts(s) == s.isActive /\ ~s.lcpFinalized

\* one invocation of the PerformanceObserver callback for an entry whose
\* element is el and whose startTime is t
ObserverCallback(s, el, t) ==
  IF ~ObserverAccepts(s) THEN s
  ELSE IF el.tag = "IMG"
  THEN notifyPopupOfLCPDetection(
         updateImageData([s EXCEPT !.lcpCandidate = el.id, !.lcpValue = Some(t)],
                         el.id, [isLCP |-> TRUE, lcpValue |-> t]))
  ELSE IF el.tag = "IMAGE" /\ el.src # ""
  THEN LET s1 == [s EXCEPT !.lcpCandidate = el.id, !.lcpValue = Some(t)]
           v == VirtualImg(el, el.src, FALSE)
       IN notifyPopupOfLCPDetection(
            analyzeBackgroundImageElement(el, v, FALSE,
              analyzeBackgroundImageElement(el, v, FALSE, s1)))
  ELSE IF el.bgUrl # ""
  THEN LET s1 == [s EXCEPT !.lcpCandidate = el.id, !.lcpValue = Some(t)]
       IN notifyPopupOfLCPDetection(
            analyzeBackgroundImageElement(el, VirtualImg(el, el.bgUrl, FALSE), FALSE, s1))
  ELSE notifyPopupOfLCPDetection(
         [s EXCEPT !.lcpCandidate = NoElement, !.lcpValue = Some(t)])

RECURSIVE DeliverEntry(_, _, _, _)
\* every observer created by an activation is still observing: the browser
\* runs the callback of each of them for the entry
DeliverEntry(n, s, el, t) ==
  IF n = 0 THEN s ELSE DeliverEntry(n - 1, ObserverCallback(s, el, t), el, t)

\* the filter without its isLargeEnough test
FallbackQualifiesByAreaOnly(img) ==
  /\ img.tag = "IMG"
  /\ img.top < Env.innerHeight /\ img.top + img.rectH > 0
  /\ img.rectW > 0 /\ img.rectH > 0
  /\ img.src # ""
  /\ img.rectW * img.rectH > 60000

FallbackQualifies(img) ==
  /\ img.tag = "IMG"
  /\ img.top < Env.innerHeight /\ img.top + img.rectH > 0
  /\ img.rectW > 0 /\ img.rectH > 0
  /\ img.src # ""
  /\ img.rectW >= 300 /\ img.rectH >= 200
  /\ img.rectW * img.rectH > 60000

aboveFoldImages == SelectSeq(PageSeq, FallbackQualifies)

RECURSIVE LargestImage(_, _)
\* aboveFoldImages.reduce: a later image replaces the largest only if its
\* displayed area is strictly greater
LargestImage(largest, rest) ==
  IF rest = <<>> THEN largest
  ELSE LargestImage(
         IF Head(rest).rectW * Head(rest).rectH > largest.rectW * largest.rectH
         THEN Head(rest) ELSE largest,
         Tail(rest))

\* baseTime by the file size in KB
BaseTime(fileSizeNum) ==
  IF fileSizeNum > 500 THEN 1500
  ELSE IF fileSizeNum > 200 THEN 1000
  ELSE IF fileSizeNum > 50 THEN 700
  ELSE 500

EstimatedTime(e) ==
  [val |-> Round(BaseTime(ParseFloatOr100(e.val)) * Env.connectionTenths, 10),
   cache |-> e.cache]

\* this.getFileSize(img) || this.estimateFileSize(img)
SizeOrEstimate(img, g) ==
  IF Truthy(g.val) THEN g ELSE estimateFileSize(img, g.cache)

\* result: the estimate in ms and the updated file-size cache
estimateLCPTime(img, cache) ==
  EstimatedTime(SizeOrEstimate(img, getFileSize(img, cache)))

\* detectLCPFallback once the largest image and its estimate est are known
FallbackChosen(s, largestImage, est) ==
  updateImageData([s EXCEPT !.fileSizeCache = est.cache,
                            !.lcpValue = Some(est.val),
                            !.lcpCandidate = largestImage.id],
                  largestImage.id, [isLCP |-> TRUE, lcpValue |-> est.val])

FallbackFor(s, largestImage) ==
  FallbackChosen(s, largestImage, estimateLCPTime(largestImage, s.fileSizeCache))

detectLCPFallback(s) ==
  IF aboveFoldImages = <<>> THEN s
  ELSE FallbackFor(s, LargestImage(Head(aboveFoldImages), Tail(aboveFoldImages)))

\* the settle body with its test of the candidate inverted
SettleCallbackWhenSet(s) ==
  IF s.lcpCandidate # NoElement THEN detectLCPFallback(s) ELSE s

\* the body of the settle timers of toggle and analyzePage
SettleCallback(s) == IF s.lcpCandidate = NoElement THEN detectLCPFallback(s) ELSE s

\* the body of the setInterval of setupPeriodicLCPDetection
PollCallback(s) ==
  IF s.isActive /\ s.lcpCandidate = NoElement THEN detectLCPFallback(s) ELSE s

(***************************************************************************)
(* State                                                                   *)
(***************************************************************************)
VARIABLES
  isActive,           \* this.isActive
  images,             \* this.images: element -> record
  backgroundImages,   \* this.backgroundImages: element -> record
  lcpCandidate,       \* this.lcpCandidate: element or null
  lcpValue,           \* this.lcpValue
  performanceData,    \* this.performanceData
  fileSizeCache,      \* this.fileSizeCache: url -> file size
  detectedLibraries,  \* this.detectedLibraries
  preloadedImages,    \* this.preloadedImages
  lcpFinalized,       \* this.lcpFinalized (undefined is read as false)
  lcpFinalizeTimer,   \* this.lcpFinalizeTimer: "undefined", "armed" or "fired"
  finalizeLeft,       \* ticks until the finalize timer expires
  settleTimers,       \* pending settle timeouts: ticks left, ascending
  lcpCheckInterval,   \* this.lcpCheckInterval is a live interval
  pollLeft,           \* ticks until the interval fires next
  pollStopTimers,     \* pending 15 s stop timeouts: ticks left, ascending
  hasPO,              \* 'PerformanceObserver' in window
  observers,          \* PerformanceObservers created and still observing
  toggles,            \* toggle messages handled so far
  paints,             \* largest-contentful-paint entries delivered so far
  sent,               \* lcpDetected messages sent by the last handler
  lcpDetected,        \* their performanceData payloads, in sending order
  sinceActivation,    \* ticks since the last activation, up to PollStopTicks + 1
  lastOp,             \* the handler that ran last
  input,              \* the element handed to a function applied on its own
  output              \* the results of the function, in call order

(***************************************************************************)
(* BackgroundService (background.js) and the content script of each tab    *)
(***************************************************************************)
Tabs == {"tabA", "tabB"}

VARIABLES
  activeTabs,         \* this.activeTabs of the BackgroundService
  scripts,            \* per tab: "closed" (tab removed), "absent" (no listener
                      \* in the tab), or the isActive of its content script,
                      \* "inactive" / "active"
  request,            \* the toggle request handleToggle is working on
  reply               \* what handleToggle answered last

serviceVars == <<activeTabs, scripts, request, reply>>

NoRequest == [tab |-> "none", pc |-> "idle"]

\* new BackgroundService(), before any content script is in place
ServiceConstructed ==
  /\ activeTabs = {}
  /\ scripts = [t \in Tabs |-> "absent"]
  /\ request = NoRequest
  /\ reply = "none"

engineVars ==
  <<isActive, images, backgroundImages, lcpCandidate, lcpValue, performanceData,
    fileSizeCache, detectedLibraries, preloadedImages, lcpFinalized, sent,
    lcpDetected>>

timerVars ==
  <<lcpFinalizeTimer, finalizeLeft, settleTimers, lcpCheckInterval, pollLeft,
    pollStopTimers>>

vars ==
  <<isActive, images, backgroundImages, lcpCandidate, lcpValue, performanceData,
    fileSizeCache, detectedLibraries, preloadedImages, lcpFinalized,
    lcpFinalizeTimer, finalizeLeft, settleTimers, lcpCheckInterval, pollLeft,
    pollStopTimers, hasPO, observers, toggles, paints, sent, lcpDetected,
    sinceActivation, lastOp, input, output, dom, activeTabs, scripts, request,
    reply>>

probeVars == <<input, output, dom, serviceVars>>

EmptyMap == [x \in {} |-> SizeNull]

\* the object as the operators above read it
This ==
  [ isActive |-> isActive, images |-> images, backgroundImages |-> backgroundImages,
    lcpCandidate |-> lcpCandidate, lcpValue |-> lcpValue,
    performanceData |-> performanceData, fileSizeCache |-> fileSizeCache,
    detectedLibraries |-> detectedLibraries, preloadedImages |-> preloadedImages,
    lcpFinalized |-> lcpFinalized, sent |-> 0, lcpDetected |-> <<>> ]

Commit(s) ==
  /\ isActive' = s.isActive
  /\ images' = s.images
  /\ backgroundImages' = s.backgroundImages
  /\ lcpCandidate' = s.lcpCandidate
  /\ lcpValue' = s.lcpValue
  /\ performanceData' = s.performanceData
  /\ fileSizeCache' = s.fileSizeCache
  /\ detectedLibraries' = s.detectedLibraries
  /\ preloadedImages' = s.preloadedImages
  /\ lcpFinalized' = s.lcpFinalized
  /\ sent' = s.sent
  /\ lcpDetected' = s.lcpDetected

RECURSIVE InsertTimer(_, _)
InsertTimer(t, seq) ==
  IF seq = <<>> THEN <<t>>
  ELSE IF t <= Head(seq) THEN <<t>> \o seq
  ELSE <<Head(seq)>> \o InsertTimer(t, Tail(seq))

Decrement(seq) == [i \in 1..Len(seq) |-> seq[i] - 1]

\* the constructor and init(): detectPreloadedImages, setupMutationObserver
Constructed ==
  /\ isActive = FALSE
  /\ images = EmptyMap
  /\ backgroundImages = EmptyMap
  /\ lcpCandidate = NoElement
  /\ lcpValue = Null
  /\ performanceData = ZeroCounters(Null)
  /\ fileSizeCache = EmptyMap
  /\ detectedLibraries = DetectorResults
  /\ preloadedImages = PagePreloads
  /\ lcpFinalized = FALSE
  /\ lcpFinalizeTimer = "undefined"
  /\ finalizeLeft = 0
  /\ settleTimers = <<>>
  /\ lcpCheckInterval = FALSE
  /\ pollLeft = 0
  /\ pollStopTimers = <<>>
  /\ observers = 0
  /\ toggles = 0
  /\ paints = 0
  /\ sent = 0
  /\ lcpDetected = <<>>
  /\ sinceActivation = 0
  /\ lastOp = "init"

Init ==
  /\ ServiceConstructed
  /\ dom = FullPage
  /\ Constructed
  /\ hasPO \in BOOLEAN
  /\ input = [img |-> BaseEl, env |-> Env]
  /\ output = <<>>

(***************************************************************************)
(* toggle(): activation                                                    *)
(***************************************************************************)
\* setupLCPObserver arms the finalize timer only if there is none yet
\* (hasPO: the observer exists and observe() succeeds; the catch branch, where
\* observe() throws after the timer was armed, is not modelled)
ArmsFinalize == hasPO /\ lcpFinalizeTimer = "undefined"

ClearFinalized(s, arm) == IF arm THEN [s EXCEPT !.lcpFinalized = FALSE] ELSE s

\* the synchronous part of the activation branch of toggle
Activated ==
  analyzePage(detectLibrariesOnPage(
    ClearFinalized(resetPerformanceData([This EXCEPT !.isActive = TRUE,
                                                     !.images = EmptyMap]),
                   ArmsFinalize)))

\* the settle timers armed by analyzePage (if no candidate yet) and by toggle
ArmSettle(s, timers) ==
  InsertTimer(ToggleSettleTicks,
              IF s.lcpCandidate = NoElement
              THEN InsertTimer(AnalyzeSettleTicks, timers) ELSE timers)

ActivateCommit(s) ==
  /\ Commit(s)
  /\ settleTimers' = ArmSettle(s, settleTimers)

Activate ==
  /\ ~isActive
  /\ toggles < MaxToggles
  /\ ActivateCommit(Activated)
  /\ lcpFinalizeTimer' = IF ArmsFinalize THEN "armed" ELSE lcpFinalizeTimer
  /\ finalizeLeft' = IF ArmsFinalize THEN FinalizeTicks ELSE finalizeLeft
  /\ observers' = IF hasPO THEN observers + 1 ELSE observers
  /\ lcpCheckInterval' = IF hasPO THEN lcpCheckInterval ELSE TRUE
  /\ pollLeft' = IF hasPO THEN pollLeft ELSE PollTicks
  /\ pollStopTimers' = IF hasPO THEN pollStopTimers
                       ELSE InsertTimer(PollStopTicks, pollStopTimers)
  /\ toggles' = toggles + 1
  /\ sinceActivation' = 0
  /\ lastOp' = "activate"
  /\ UNCHANGED <<hasPO, paints, probeVars>>

(***************************************************************************)
(* toggle(): deactivation (removeOverlays, cleanupPeriodicDetection,       *)
(* clearPreviousLCPFlag)                                                   *)
(***************************************************************************)
Deactivate ==
  /\ isActive
  /\ toggles < MaxToggles
  /\ Commit([This EXCEPT !.isActive = FALSE])
  /\ lcpCheckInterval' = FALSE
  /\ pollLeft' = 0
  /\ toggles' = toggles + 1
  /\ lastOp' = "deactivate"
  /\ UNCHANGED <<lcpFinalizeTimer, finalizeLeft, settleTimers, pollStopTimers,
                 hasPO, observers, paints, sinceActivation, probeVars>>

(***************************************************************************)
(* A largest-contentful-paint entry is delivered to the observers          *)
(***************************************************************************)
PaintStart(k) == 1000 * k + 234

PaintEvent ==
  /\ observers > 0
  /\ paints < MaxPaints
  /\ \E e \in Elements :
       Commit(DeliverEntry(observers, This, Dom(e), PaintStart(paints + 1)))
  /\ paints' = paints + 1
  /\ lastOp' = "paint"
  /\ UNCHANGED <<timerVars, hasPO, observers, toggles, sinceActivation, probeVars>>

(***************************************************************************)
(* Timers                                                                  *)
(***************************************************************************)
SettleFire ==
  /\ settleTimers # <<>> /\ Head(settleTimers) = 0
  /\ Commit(SettleCallback(This))
  /\ settleTimers' = Tail(settleTimers)
  /\ lastOp' = "settle"
  /\ UNCHANGED <<lcpFinalizeTimer, finalizeLeft, lcpCheckInterval, pollLeft,
                 pollStopTimers, hasPO, observers, toggles, paints, sinceActivation, probeVars>>

FinalizeFire ==
  /\ lcpFinalizeTimer = "armed" /\ finalizeLeft = 0
  /\ Commit([This EXCEPT !.lcpFinalized = TRUE])
  /\ lcpFinalizeTimer' = "fired"
  /\ lastOp' = "finalize"
  /\ UNCHANGED <<finalizeLeft, settleTimers, lcpCheckInterval, pollLeft,
                 pollStopTimers, hasPO, observers, toggles, paints, sinceActivation, probeVars>>

PollFire ==
  /\ lcpCheckInterval /\ pollLeft = 0
  /\ Commit(PollCallback(This))
  /\ pollLeft' = PollTicks
  /\ lastOp' = "poll"
  /\ UNCHANGED <<lcpFinalizeTimer, finalizeLeft, settleTimers, lcpCheckInterval,
                 pollStopTimers, hasPO, observers, toggles, paints, sinceActivation, probeVars>>

\* the stop timeout without its clearInterval
PollStopFireKeepsInterval ==
  /\ pollStopTimers # <<>> /\ Head(pollStopTimers) = 0
  /\ Commit(This)
  /\ pollStopTimers' = Tail(pollStopTimers)
  /\ lastOp' = "pollStop"
  /\ UNCHANGED <<lcpFinalizeTimer, finalizeLeft, settleTimers, lcpCheckInterval,
                 pollLeft, hasPO, observers, toggles, paints, sinceActivation, probeVars>>

PollStopFire ==
  /\ pollStopTimers # <<>> /\ Head(pollStopTimers) = 0
  /\ Commit(This)
  /\ lcpCheckInterval' = FALSE
  /\ pollLeft' = 0
  /\ pollStopTimers' = Tail(pollStopTimers)
  /\ lastOp' = "pollStop"
  /\ UNCHANGED <<lcpFinalizeTimer, finalizeLeft, settleTimers, hasPO, observers,
                 toggles, paints, sinceActivation, probeVars>>

TimerPending ==
  \/ lcpFinalizeTimer = "armed"
  \/ settleTimers # <<>>
  \/ lcpCheckInterval
  \/ pollStopTimers # <<>>

TimerExpired ==
  \/ lcpFinalizeTimer = "armed" /\ finalizeLeft = 0
  \/ settleTimers # <<>> /\ Head(settleTimers) = 0
  \/ lcpCheckInterval /\ pollLeft = 0
  \/ pollStopTimers # <<>> /\ Head(pollStopTimers) = 0

\* 500 ms pass: no timer is overdue, and every pending timer comes closer
Tick ==
  /\ toggles > 0
  /\ ~TimerExpired
  /\ TimerPending \/ sinceActivation <= FinalizeTicks
  /\ finalizeLeft' = IF lcpFinalizeTimer = "armed" THEN finalizeLeft - 1 ELSE finalizeLeft
  /\ settleTimers' = Decrement(settleTimers)
  /\ pollLeft' = IF lcpCheckInterval THEN pollLeft - 1 ELSE pollLeft
  /\ pollStopTimers' = Decrement(pollStopTimers)
  /\ sinceActivation' = IF sinceActivation <= PollStopTicks
                        THEN sinceActivation + 1 ELSE sinceActivation
  /\ Commit(This)
  /\ lastOp' = "tick"
  /\ UNCHANGED <<lcpFinalizeTimer, lcpCheckInterval, hasPO, observers, toggles, paints,
                 probeVars>>

Next ==
  \/ Activate
  \/ Deactivate
  \/ PaintEvent
  \/ SettleFire
  \/ FinalizeFire
  \/ PollFire
  \/ PollStopFire
  \/ Tick

Spec == Init /\ [][Next]_vars

(***************************************************************************)
(* Claims about the engine (specification Spec)                            *)
(***************************************************************************)
FlaggedRecords(store) ==
  {e \in DOMAIN store : store[e].isLCP \/ store[e].strategy = "lcp"}

\* C1: in every reachable state at most one tracked record, image record or
\* background-element record, is flagged as the LCP candidate (isLCP true or
\* strategy 'lcp').
C1_AtMostOneFlagged ==
  Cardinality(FlaggedRecords(images)) + Cardinality(FlaggedRecords(backgroundImages)) <= 1

\* C2: in every reachable state the buckets sum to the total:
\* lazyLoaded + eagerLoaded + optimized + issues + lcpCandidates + preloaded
\* = totalImages.
C2_BucketsSumToTotal ==
  performanceData.lazyLoaded + performanceData.eagerLoaded
    + performanceData.optimized + performanceData.issues
    + performanceData.lcpCandidates + performanceData.preloaded
  = performanceData.totalImages

\* C3: a paint-timing entry delivered more than 5000 ms after the latest
\* activation changes neither the LCP value nor the LCP candidate.
C3_LatePaintIgnored ==
  [][(paints' = paints + 1 /\ sinceActivation > FinalizeTicks)
       => (lcpValue' = lcpValue /\ lcpCandidate' = lcpCandidate)]_vars

\* a second entry arrived after the deadline and the value is still that of
\* the first entry
C3_Witness ==
  /\ lastOp = "paint" /\ isActive /\ sinceActivation > FinalizeTicks
  /\ paints = 2 /\ lcpValue = Some(PaintStart(1))

\* C4: once the LCP state is finalized no step of the engine changes the LCP
\* value or reassigns the LCP candidate.
C4_ImmutableOnceFinalized ==
  [][lcpFinalized => (lcpValue' = lcpValue /\ lcpCandidate' = lcpCandidate)]_vars

\* C5: while the engine stays inactive no timer or poll armed earlier has an
\* effect: the LCP candidate, the LCP value, the records and the counters do
\* not change.
C5_NoEffectWhileInactive ==
  [][(~isActive /\ ~isActive')
       => UNCHANGED <<lcpCandidate, lcpValue, images, backgroundImages,
                      performanceData>>]_vars

\* C6: where the paint-timing API exists, every activation leaves the
\* finalized flag false and a finalize timer armed with the full 5000 ms.
C6_ActivationRearmsFinalize ==
  [][(hasPO /\ ~isActive /\ isActive')
       => (~lcpFinalized' /\ lcpFinalizeTimer' = "armed"
           /\ finalizeLeft' = FinalizeTicks)]_vars

\* C7: a toggle never changes the LCP value, and after an activation the
\* value reported in the aggregate counters is the value held before it.
C7_ValueSurvivesToggle ==
  [][(toggles' = toggles + 1)
       => (lcpValue' = lcpValue
           /\ (isActive' => performanceData'.lcpValue = lcpValue))]_vars

\* a re-activation with a measured value, counters rebuilt from zero
C7_Witness ==
  /\ lastOp = "activate" /\ toggles >= 3
  /\ lcpValue # Null /\ performanceData.lcpValue = lcpValue
  /\ performanceData.totalImages > 0

\* C8: a handler sends the LCP-change notification at most once, only if it
\* changed the LCP candidate or the LCP value, and never once finalized.
C8_NotifyOncePerTransition ==
  [][/\ sent' <= (IF lcpCandidate' # lcpCandidate \/ lcpValue' # lcpValue
                  THEN 1 ELSE 0)
     /\ (lcpFinalized => sent' = 0)]_vars

(***************************************************************************)
(* Classification applied on its own: one image, classified twice with     *)
(* this.images cleared in between, as two activations do                   *)
(***************************************************************************)
SampleSrc(ext) ==
  CASE ext = "png" -> "probe.png"
    [] ext = "jpg" -> "probe.jpg"
    [] OTHER -> "probe.webp"

SampleImages ==
  { [BaseEl EXCEPT !.id = "probe", !.src = SampleSrc(x), !.currentSrc = SampleSrc(x),
       !.ext = x, !.loading = l, !.width = d[1], !.height = d[2],
       !.rectW = d[1], !.rectH = d[2], !.naturalWidth = n[1],
       !.naturalHeight = n[2], !.top = t, !.parentTop = t,
       !.transferSize = ts, !.widthAttr = TRUE, !.heightAttr = TRUE] :
      x \in {"png", "jpg", "webp"}, l \in {"lazy", "eager", "auto"},
      d \in {<<0, 0>>, <<40, 40>>, <<600, 400>>},
      n \in {<<0, 0>>, <<40, 40>>, <<1200, 800>>},
      t \in {0, 1200}, ts \in {0, 30000} }

ClassifyInit ==
  /\ ServiceConstructed
  /\ dom = FullPage
  /\ Constructed
  /\ hasPO = FALSE
  /\ input \in {[img |-> i, env |-> Env] : i \in SampleImages}
  /\ output = <<>>

notEngine ==
  <<timerVars, hasPO, observers, toggles, paints, sinceActivation, input, dom,
    serviceVars>>

ClassifyCommit(s) ==
  /\ Commit(s)
  /\ output' = Append(output, s.images[input.img.id])

Classify ==
  /\ Len(output) < 2
  /\ ClassifyCommit(analyzeImage(input.img, [This EXCEPT !.images = EmptyMap]))
  /\ lastOp' = "classify"
  /\ UNCHANGED notEngine

\* a file-size lookup between classifications (estimateLCPTime, the analysers)
LookupFileSize ==
  /\ Len(output) < 2
  /\ lastOp # "lookup"
  /\ Commit([This EXCEPT !.fileSizeCache = getFileSize(input.img, fileSizeCache).cache])
  /\ lastOp' = "lookup"
  /\ UNCHANGED <<notEngine, output>>

ClassifyNext == Classify \/ LookupFileSize

SpecClassify == ClassifyInit /\ [][ClassifyNext]_vars

RecordContents(r) ==
  <<r.strategy, r.library, r.position, r.fileSize, r.recommendations>>

\* C9: classifying the same element twice with no DOM change in between
\* yields identical record contents (strategy, library, position, estimated
\* file size, recommendations in order), whatever the file-size cache holds.
C9_ClassifyIdempotent ==
  Len(output) = 2 => RecordContents(output[1]) = RecordContents(output[2])

(***************************************************************************)
(* The library pattern matcher applied on its own                          *)
(***************************************************************************)
AttrNames == {"data-src", "data-srcset", "data-sizes", "data-lazy", "data-original"}

ClassNames ==
  {"lazyload", "lazyloaded", "lozad", "react-lazy-load", "v-lazy",
   "v-lazy-container", "lazy", "lazy-image", "lazy-load"}

MatcherInputs ==
  { [img |-> [BaseEl EXCEPT !.id = "probe", !.loading = "auto",
                            !.attrs = a, !.classes = c],
     env |-> [Env EXCEPT !.lazySizesGlobal = g[1], !.lozadGlobal = g[2],
                         !.ioInScripts = g[3], !.lazyLoadGlobal = g[4]]] :
      a \in {x \in SUBSET AttrNames : Cardinality(x) <= MaxMarks},
      c \in {x \in SUBSET ClassNames : Cardinality(x) <= MaxMarks},
      g \in BOOLEAN \X BOOLEAN \X BOOLEAN \X BOOLEAN }

MatcherInit ==
  /\ ServiceConstructed
  /\ dom = FullPage
  /\ Constructed
  /\ hasPO = FALSE
  /\ input \in {i \in MatcherInputs :
                  Cardinality(i.img.attrs) + Cardinality(i.img.classes) <= MaxMarks}
  /\ output = <<>>

MatchCommit(r) ==
  /\ Commit([This EXCEPT !.detectedLibraries = r.detected])
  /\ output' = <<r.library>>

Match ==
  /\ output = <<>>
  /\ MatchCommit(detectJSLazyLoading(input.img, input.env, detectedLibraries))
  /\ lastOp' = "match"
  /\ UNCHANGED notEngine

MatcherNext == Match

SpecMatcher == MatcherInit /\ [][MatcherNext]_vars

MatchedRules ==
  {i \in 1..Len(libraryPatterns) :
     PatternDetected(libraryPatterns[i], input.img.attrs, input.img.classes)}

\* rule i precedes rule j: lower priority rank, or the same rank and declared
\* no later
Precedes(i, j) ==
  \/ libraryPatterns[i].priority < libraryPatterns[j].priority
  \/ libraryPatterns[i].priority = libraryPatterns[j].priority /\ i <= j

LazySizesMarker ==
  \/ input.img.attrs \cap {"data-srcset", "data-sizes"} # {}
  \/ input.img.classes \cap {"lazyload", "lazyloaded"} # {}

StrategyImages ==
  { [BaseEl EXCEPT !.id = "probe", !.src = src, !.currentSrc = src, !.ext = "jpg",
       !.loading = l, !.width = d[1], !.height = d[2], !.rectW = d[1],
       !.rectH = d[2], !.naturalWidth = d[1], !.naturalHeight = d[2],
       !.top = t, !.parentTop = t, !.attrs = m[1], !.classes = m[2],
       !.fetchPriority = f, !.decoding = dec,
       !.widthAttr = TRUE, !.heightAttr = TRUE] :
      src \in {"probe.jpg", "pre.jpg"}, l \in {"lazy", "eager", "auto"},
      d \in {<<0, 0>>, <<600, 400>>}, t \in {0, 1200},
      m \in {<<{}, {}>>, <<{"data-src"}, {}>>, <<{}, {"lazyload"}>>,
             <<{"data-original"}, {"lozad"}>>},
      f \in {"auto", "high"}, dec \in {"auto", "async"} }

\* the object after construction, or after an earlier paint entry made the
\* image the candidate
StrategyInit ==
  /\ ServiceConstructed
  /\ dom = FullPage
  /\ isActive = TRUE
  /\ images = EmptyMap
  /\ backgroundImages = EmptyMap
  /\ lcpCandidate \in {NoElement, "probe"}
  /\ lcpValue = IF lcpCandidate = NoElement THEN Null ELSE Some(PaintStart(1))
  /\ performanceData = ZeroCounters(lcpValue)
  /\ fileSizeCache = EmptyMap
  /\ detectedLibraries = DetectorResults
  /\ preloadedImages = PagePreloads
  /\ lcpFinalized = FALSE
  /\ lcpFinalizeTimer = "undefined"
  /\ finalizeLeft = 0
  /\ settleTimers = <<>>
  /\ lcpCheckInterval = FALSE
  /\ pollLeft = 0
  /\ pollStopTimers = <<>>
  /\ observers = 0
  /\ toggles = 0
  /\ paints = 0
  /\ sent = 0
  /\ lcpDetected = <<>>
  /\ sinceActivation = 0
  /\ lastOp = "init"
  /\ hasPO = TRUE
  /\ input \in {[img |-> i, env |-> Env] : i \in StrategyImages}
  /\ output = <<>>

StrategyCommit(r) ==
  /\ Commit(r.s)
  /\ output' = <<r.data>>

Strategy ==
  /\ output = <<>>
  /\ StrategyCommit(detectLoadingStrategy(input.img, This))
  /\ lastOp' = "strategy"
  /\ UNCHANGED notEngine

StrategyNext == Strategy

SpecStrategy == StrategyInit /\ [][StrategyNext]_vars

\* the tie-break of the claim for a lazy/eager value v
ClaimedTieBreak(d, v) ==
  IF v = "lazy" /\ d.position = "below-fold" /\ d.hasDimensions THEN "optimized"
  ELSE IF ~d.hasDimensions \/ Len(d.recommendations) > 2 THEN "issue"
  ELSE v

\* the tie-break with the eager-below-fold issue
AmendedTieBreak(d, v) ==
  IF v = "lazy" /\ d.position = "below-fold" /\ d.hasDimensions THEN "optimized"
  ELSE IF \/ ~d.hasDimensions
          \/ (v = "eager" /\ d.position = "below-fold")
          \/ Len(d.recommendations) > 2
  THEN "issue"
  ELSE v

NativeValue(img) == IF img.loading = "lazy" THEN "lazy" ELSE "eager"

\* C11 (as written): the final strategy is lcp for the LCP candidate, else
\* preload for a preloaded source, else with a library optimized / issue /
\* lazy, else the optimized / issue tie-break on the native lazy / eager value.
C11_FixedPrecedence ==
  output # <<>> =>
    output[1].strategy =
      IF input.img.id = lcpCandidate THEN "lcp"
      ELSE IF input.img.src \in preloadedImages THEN "preload"
      ELSE IF output[1].library # NoLibrary THEN ClaimedTieBreak(output[1], "lazy")
      ELSE ClaimedTieBreak(output[1], NativeValue(input.img))

\* C11 (amended): as above, but without a library a record is also an issue
\* when it is eager and below the fold.
C11_AmendedPrecedence ==
  output # <<>> =>
    output[1].strategy =
      IF input.img.id = lcpCandidate THEN "lcp"
      ELSE IF input.img.src \in preloadedImages THEN "preload"
      ELSE IF output[1].library # NoLibrary THEN ClaimedTieBreak(output[1], "lazy")
      ELSE AmendedTieBreak(output[1], NativeValue(input.img))

\* an eager image below the fold, with dimensions and at most 2 recommendations
C11_Witness ==
  /\ output # <<>>
  /\ output[1].strategy = "issue" /\ output[1].library = NoLibrary
  /\ output[1].hasDimensions /\ output[1].position = "below-fold"
  /\ Len(output[1].recommendations) <= 2
  /\ input.img.id # lcpCandidate /\ input.img.src \notin preloadedImages

\* C12: an element with a library signature gets that library in its record
\* and is classified as library-driven lazy, whatever its loading attribute.
C12_SignatureDecides ==
  (output # <<>> /\ MatchedPatterns(input.img.attrs, input.img.classes) # <<>>) =>
    /\ output[1].library =
         StableSort(MatchedPatterns(input.img.attrs, input.img.classes))[1].library
    /\ output[1].strategy \in {"lcp", "preload", "optimized", "issue", "lazy"}

LibraryNames ==
  {"native", "lazysizes", "lozad", "react-lazy-load", "vue-lazyload",
   "intersection-observer", "custom", "none"}

\* C13: the library the matcher returns for a record (null standing for none)
\* and every detected library name belong to the closed set of library names,
\* also when the match comes from a global-scope marker.
C13_ClosedLibrarySet ==
  output # <<>> =>
    /\ output[1] \in LibraryNames \cup {NoLibrary}
    /\ detectedLibraries \subseteq LibraryNames

\* the counter a record of the given strategy is counted in
BucketOf(pd, strategy) ==
  CASE strategy = "lazy" -> pd.lazyLoaded
    [] strategy = "eager" -> pd.eagerLoaded
    [] strategy = "optimized" -> pd.optimized
    [] strategy = "issue" -> pd.issues
    [] strategy = "preload" -> pd.preloaded
    [] OTHER -> pd.lcpCandidates

\* C14: when an already-classified image becomes the LCP candidate, its
\* record's strategy becomes lcp, the bucket it was counted in loses one,
\* lcpCandidates gains one, totalImages is unchanged and no other record changes.
C14_ReclassifiesCandidate ==
  [][(/\ lcpCandidate' # lcpCandidate
      /\ lcpCandidate' \in DOMAIN images
      /\ images[lcpCandidate'].strategy # "lcp")
       => /\ images'[lcpCandidate'].strategy = "lcp"
          /\ performanceData'.lcpCandidates = performanceData.lcpCandidates + 1
          /\ BucketOf(performanceData', images[lcpCandidate'].strategy)
               = BucketOf(performanceData, images[lcpCandidate'].strategy) - 1
          /\ performanceData'.totalImages = performanceData.totalImages
          /\ \A i \in DOMAIN images \ {lcpCandidate'} : images'[i] = images[i]]_vars

\* C15: a poll interval is never live more than 15 s after the activation
\* that started it, whatever activations and deactivations came before.
C15_PollStopsWithinCeiling ==
  lcpCheckInterval => sinceActivation <= PollStopTicks

\* the stop timeout of a single, never deactivated activation has just
\* cleared the interval, 15 s after it was started
C15_Witness ==
  /\ lastOp = "pollStop" /\ isActive /\ toggles = 1
  /\ sinceActivation = PollStopTicks /\ ~lcpCheckInterval

\* C16: once the finalize deadline after an activation has elapsed the LCP
\* state is finalized, with or without the paint-timing API.
C16_FinalizedAfterDeadline ==
  (toggles > 0 /\ sinceActivation > FinalizeTicks) => lcpFinalized

\* C17: without the paint-timing API no observer is registered, and an
\* engine that stayed active past the settle delays of its activation has an
\* LCP candidate and an LCP value, both set by the heuristic fallback (the
\* page holds a qualifying above-fold image).
C17_FallbackOnlyWithoutObserver ==
  ~hasPO =>
    /\ observers = 0 /\ paints = 0
    /\ (isActive /\ sinceActivation > ToggleSettleTicks) =>
         (lcpCandidate # NoElement /\ lcpValue # Null)

\* the first settle timer of an activation without the API has just made the
\* hero image the candidate, with an estimated value
C17_Witness ==
  /\ ~hasPO /\ isActive /\ toggles = 1 /\ lastOp = "settle"
  /\ aboveFoldImages # <<>>
  /\ lcpCandidate = "hero" /\ lcpValue # Null
  /\ images["hero"].isLCP

(***************************************************************************)
(* The heuristic fallback on small pages: one activation without the       *)
(* paint-timing API, then the settle timers and the periodic poll          *)
(***************************************************************************)
FallbackSizes == {<<299, 400>>, <<400, 199>>, <<300, 200>>, <<300, 201>>, <<400, 300>>}

FallbackImages(id) ==
  { [BaseEl EXCEPT !.id = id, !.src = id, !.currentSrc = id, !.ext = "jpg",
       !.width = d[1], !.height = d[2], !.naturalWidth = d[1],
       !.naturalHeight = d[2], !.rectW = d[1], !.rectH = d[2],
       !.top = t, !.parentTop = t, !.widthAttr = TRUE, !.heightAttr = TRUE] :
      d \in FallbackSizes, t \in {0, 1200} }

FallbackPages ==
  {<<a>> : a \in FallbackImages("first")}
    \cup (FallbackImages("first") \X FallbackImages("second"))

FallbackInit ==
  /\ ServiceConstructed
  /\ dom \in FallbackPages
  /\ Constructed
  /\ hasPO = FALSE
  /\ input = [img |-> BaseEl, env |-> Env]
  /\ output = <<>>

FallbackNext ==
  \/ Activate
  \/ SettleFire
  \/ PollFire
  \/ PollStopFire
  \/ Tick

SpecFallback == FallbackInit /\ [][FallbackNext]_vars

AboveFoldVisible(img) ==
  /\ img.tag = "IMG" /\ img.src # ""
  /\ img.top < Env.innerHeight /\ img.top + img.rectH > 0
  /\ img.rectW > 0 /\ img.rectH > 0

NoLargeAboveFold ==
  \A i \in 1..Len(dom) :
    ~(AboveFoldVisible(dom[i]) /\ dom[i].rectW >= 300 /\ dom[i].rectH >= 200)

\* C18: a settle timer or a poll that runs the fallback on a page without an
\* above-fold image of at least 300x200 leaves the candidate unset and the
\* LCP value, every record and every counter as they were.
C18_FallbackWithoutCandidate ==
  [][(lastOp' \in {"settle", "poll"} /\ lcpCandidate = NoElement /\ NoLargeAboveFold)
       => /\ lcpCandidate' = NoElement
          /\ UNCHANGED <<lcpValue, images, backgroundImages, performanceData>>]_vars

\* the fallback has just run on a scanned page whose only above-fold image
\* is 299 wide (its area is above 60,000)
C18_Witness ==
  /\ lastOp = "settle" /\ NoLargeAboveFold
  /\ \E i \in 1..Len(dom) : AboveFoldVisible(dom[i]) /\ dom[i].rectW = 299
  /\ images # EmptyMap /\ performanceData.totalImages > 0
  /\ lcpCandidate = NoElement /\ lcpValue = Null

DisplayArea(img) == img.rectW * img.rectH

ClaimedQualifying ==
  {i \in 1..Len(dom) : /\ AboveFoldVisible(dom[i])
                       /\ dom[i].rectW >= 300 /\ dom[i].rectH >= 200
                       /\ DisplayArea(dom[i]) >= 60000}

\* C19: after the fallback ran, the candidate is an image of greatest
\* displayed area among the above-fold visible images of width >= 300,
\* height >= 200 and area >= 60,000 (none only if there is no such image).
C19_FallbackSelection ==
  lastOp \in {"settle", "poll"} =>
    IF ClaimedQualifying = {} THEN lcpCandidate = NoElement
    ELSE \E i \in ClaimedQualifying :
           /\ lcpCandidate = dom[i].id
           /\ \A j \in ClaimedQualifying : DisplayArea(dom[j]) <= DisplayArea(dom[i])

(***************************************************************************)
(* calculateScore: the score and tier shown in the tooltip of an overlay   *)
(***************************************************************************)
Deduct(cond, points) == IF cond THEN points ELSE 0

\* the score before Math.max(0, Math.min(100, score))
UnclampedScore(data) ==
  100 - Deduct(~data.hasDimensions, 20)
      - Deduct(data.strategy = "eager" /\ data.position = "below-fold", 15)
      - Deduct(data.isLCP /\ ~data.isPreloaded, 10)
      - Deduct(data.fetchPriority # "high" /\ data.isLCP, 5)
      - Deduct(data.decoding # "async", 5)
      + Deduct(data.strategy = "lazy" /\ data.position = "below-fold", 10)
      + Deduct(data.isPreloaded, 10)
      + Deduct(data.hasDimensions, 10)

MathMin(a, b) == IF a < b THEN a ELSE b
MathMax(a, b) == IF a > b THEN a ELSE b

ScoreLevel(score) ==
  IF score >= 90 THEN "excellent"
  ELSE IF score >= 70 THEN "good"
  ELSE IF score >= 50 THEN "needs-work"
  ELSE "poor"

Scored(score) == [score |-> score, level |-> ScoreLevel(score)]

\* calculateScore without the clamp
calculateScoreUnclamped(data) == Scored(UnclampedScore(data))

calculateScore(data) == Scored(MathMax(0, MathMin(100, UnclampedScore(data))))

\* calculateScore reads seven fields of a record; the records scored here
\* take every combination of their values (null: the fetch priority and
\* decoding of a background image record)
ScoreRecords ==
  [hasDimensions : BOOLEAN,
   strategy : {"lazy", "eager", "optimized", "issue", "lcp", "preload"},
   position : {"above-fold", "below-fold"},
   isLCP : BOOLEAN, isPreloaded : BOOLEAN,
   fetchPriority : {"auto", "high", "null"},
   decoding : {"auto", "async", "null"}]

ScoreInit ==
  /\ ServiceConstructed
  /\ dom = FullPage
  /\ Constructed
  /\ hasPO = FALSE
  /\ input \in {[img |-> BaseEl, env |-> Env, data |-> d] : d \in ScoreRecords}
  /\ output = <<>>

Score ==
  /\ output = <<>>
  /\ output' = <<calculateScore(input.data)>>
  /\ Commit(This)
  /\ lastOp' = "score"
  /\ UNCHANGED notEngine

ScoreNext == Score

SpecScore == ScoreInit /\ [][ScoreNext]_vars

ClaimedTerms(d) ==
  << IF d.hasDimensions THEN 10 ELSE 0 - 20,
     IF d.strategy = "eager" /\ d.position = "below-fold" THEN 0 - 15 ELSE 0,
     IF d.isLCP /\ ~d.isPreloaded THEN 0 - 10 ELSE 0,
     IF d.isLCP /\ d.fetchPriority # "high" THEN 0 - 5 ELSE 0,
     IF d.decoding = "async" THEN 0 ELSE 0 - 5,
     IF d.strategy = "lazy" /\ d.position = "below-fold" THEN 10 ELSE 0,
     IF d.isPreloaded THEN 10 ELSE 0 >>

RECURSIVE SumSeq(_)
SumSeq(q) == IF q = <<>> THEN 0 ELSE Head(q) + SumSeq(Tail(q))

ClaimedClamp(n) == IF n < 0 THEN 0 ELSE IF n > 100 THEN 100 ELSE n

ClaimedTier(n) ==
  CASE n >= 90 -> "excellent"
    [] n >= 70 /\ n < 90 -> "good"
    [] n >= 50 /\ n < 70 -> "needs-work"
    [] OTHER -> "poor"

FollowsFormula(d, r) ==
  /\ r.score = ClaimedClamp(100 + SumSeq(ClaimedTerms(d)))
  /\ r.level = ClaimedTier(r.score)

ExampleRecord(d) ==
  ~d.hasDimensions /\ d.strategy = "eager" /\ d.position = "below-fold"

HeroImages ==
  { [BaseEl EXCEPT !.id = "probe", !.src = src, !.currentSrc = src, !.ext = "jpg",
       !.width = r[1], !.height = r[2], !.rectW = r[1], !.rectH = r[2],
       !.naturalWidth = n[1], !.naturalHeight = n[2], !.top = t, !.parentTop = t,
       !.fetchPriority = f, !.widthAttr = TRUE, !.heightAttr = TRUE] :
      src \in {"probe.jpg", "pre.jpg"},
      n \in {<<1000, 800>>, <<800, 600>>, <<799, 600>>, <<800, 599>>},
      r \in {<<500, 400>>, <<400, 300>>, <<399, 300>>, <<400, 299>>},
      t \in {0, 799, 800, 1200},
      f \in {"auto", "high", "low"} }

HeroInit ==
  /\ ServiceConstructed
  /\ dom = FullPage
  /\ Constructed
  /\ hasPO = FALSE
  /\ input \in {[img |-> i, env |-> Env] : i \in HeroImages}
  /\ output = <<>>

AnalyzeHero ==
  /\ output = <<>>
  /\ output' = <<heroImageAnalysis(input.img, preloadedImages)>>
  /\ Commit(This)
  /\ lastOp' = "hero"
  /\ UNCHANGED notEngine

HeroNext == AnalyzeHero

SpecHero == HeroInit /\ [][HeroNext]_vars

ClaimedHeroScore(img) ==
  SumSeq(<< IF img.top < Env.innerHeight THEN 3 ELSE 0,
            IF img.naturalWidth >= 800 /\ img.naturalHeight >= 600 THEN 2 ELSE 0,
            IF img.rectW >= 400 /\ img.rectH >= 300 THEN 2 ELSE 0,
            IF img.fetchPriority = "high" THEN 1 ELSE 0 >>)

HeroExample(img) ==
  /\ img.naturalWidth = 1000 /\ img.naturalHeight = 800
  /\ img.rectW = 500 /\ img.rectH = 400

\* C21: the element is marked hero exactly when 3 (above-fold) + 2 (natural
\* size >= 800x600) + 2 (displayed size >= 400x300) + 1 (high fetch priority)
\* is at least 5, and a hero carries that sum as its score; natural 1000x800
\* displayed 500x400 is a hero of score 8 above-fold with high priority, a
\* hero of score 5 below-fold with high priority, and no hero below-fold
\* without high priority (the sum is 4).
C21_HeroScore ==
  output # <<>> =>
    /\ output[1].isHero <=> ClaimedHeroScore(input.img) >= 5
    /\ output[1].isHero => output[1].score = ClaimedHeroScore(input.img)
    /\ (HeroExample(input.img) /\ input.img.fetchPriority = "high") =>
         /\ output[1].isHero
         /\ output[1].score = IF input.img.top < Env.innerHeight THEN 8 ELSE 5
    /\ (/\ HeroExample(input.img) /\ input.img.fetchPriority # "high"
        /\ input.img.top >= Env.innerHeight) =>
         (~output[1].isHero /\ ClaimedHeroScore(input.img) = 4)

\* the example below the fold with high priority has been analysed: a hero
\* of score exactly 5
C21_Witness ==
  /\ output # <<>> /\ lastOp = "hero"
  /\ HeroExample(input.img) /\ input.img.fetchPriority = "high"
  /\ input.img.top >= Env.innerHeight
  /\ output[1].isHero /\ output[1].score = 5

\* the engine state a scan from scratch produces when the candidate is
\* already known: what classification after the paint event yields
Rescanned ==
  analyzePage(resetPerformanceData([This EXCEPT !.images = EmptyMap,
                                                !.backgroundImages = EmptyMap,
                                                !.fileSizeCache = EmptyMap]))

SameOutcome(r, c) ==
  /\ images[c].isLCP = r.images[c].isLCP
  /\ images[c].strategy = r.images[c].strategy
  /\ images[c].recommendations = r.images[c].recommendations
  /\ performanceData = r.performanceData

\* C22: after the first scan and a paint event naming an image X, the record
\* of X (isLCP, strategy, recommendations) and the counters are those that
\* classifying X after the event produces.
C22_ScanAndPaintCommute ==
  (/\ toggles = 1 /\ isActive /\ lastOp = "paint"
   /\ lcpCandidate \in DOMAIN images) => SameOutcome(Rescanned, lcpCandidate)

\* C23: every lcpDetected message carries counters whose lcpValue is the
\* current LCP value and whose lcpCandidates counts the candidate, if the
\* candidate is a tracked element.
C23_NotificationIsCurrent ==
  \A k \in 1..Len(lcpDetected) :
    /\ lcpDetected[k].lcpValue = lcpValue
    /\ (lcpCandidate \in DOMAIN images \cup DOMAIN backgroundImages) =>
         lcpDetected[k].lcpCandidates >= 1

\* the values a paint entry can have measured (estimates are multiples of 50)
MeasuredValues == {Some(PaintStart(k)) : k \in 1..(MaxPaints + 1)}

\* C24: a paint event for non-image content flags no record and leaves its
\* timing as the LCP value; and no settle timer or poll replaces a value
\* measured by a paint event.
C24_MeasuredValueKept ==
  [][/\ (lastOp' = "paint" /\ lcpCandidate' = NoElement /\ lcpValue' # lcpValue) =>
          /\ images' = images /\ backgroundImages' = backgroundImages
          /\ lcpValue' \in MeasuredValues
     /\ (lastOp' \in {"settle", "poll"} /\ lcpValue \in MeasuredValues) =>
          lcpValue' = lcpValue]_vars

(***************************************************************************)
(* Classification of images inside a container that starts higher up       *)
(***************************************************************************)
\* <<top of the parent element, top of the image>>: the image lies inside
\* its parent
PositionTops ==
  {<<0, 0>>, <<0, 700>>, <<0, 900>>, <<700, 700>>, <<700, 900>>, <<700, 1200>>,
   <<900, 900>>, <<900, 1200>>}

PositionImages ==
  { [BaseEl EXCEPT !.id = "probe", !.src = "probe.jpg", !.currentSrc = "probe.jpg",
       !.ext = "jpg", !.loading = l, !.width = d[1], !.height = d[2],
       !.rectW = d[1], !.rectH = d[2], !.naturalWidth = d[1],
       !.naturalHeight = d[2], !.parentTop = t[1], !.top = t[2],
       !.decoding = dec, !.widthAttr = TRUE, !.heightAttr = TRUE] :
      l \in {"lazy", "eager", "auto"}, d \in {<<40, 40>>, <<600, 400>>},
      t \in PositionTops, dec \in {"auto", "async"} }

PositionInit ==
  /\ ServiceConstructed
  /\ dom = FullPage
  /\ Constructed
  /\ hasPO = FALSE
  /\ input \in {[img |-> i, env |-> Env] : i \in PositionImages}
  /\ output = <<>>

SpecPosition == PositionInit /\ [][ClassifyNext]_vars

\* C25: the position of an image record is 'above-fold' exactly when the
\* image's own top edge is above the viewport height, 'below-fold' otherwise,
\* and it agrees with the record's isAboveFold flag.
C25_PositionByOwnTop ==
  \A k \in 1..Len(output) :
    /\ output[k].position =
         IF input.img.top < Env.innerHeight THEN "above-fold" ELSE "below-fold"
    /\ output[k].position = "above-fold" <=> output[k].isAboveFold

(***************************************************************************)
(* The sources that deliver an img to the classifier: the scans of         *)
(* analyzePage and the MutationObserver of setupMutationObserver           *)
(***************************************************************************)
SourceImage(id, pic, visits) ==
  [BaseEl EXCEPT !.id = id, !.src = id, !.currentSrc = id, !.ext = "jpg",
     !.width = 600, !.height = 400, !.naturalWidth = 600, !.naturalHeight = 400,
     !.rectW = 600, !.rectH = 400, !.widthAttr = TRUE, !.heightAttr = TRUE,
     !.inPicture = pic, !.carouselVisits = visits]

SourceImages(id) == {SourceImage(id, pic, v) : pic \in BOOLEAN, v \in {0, 2}}

SourcePages ==
  {<<a>> : a \in SourceImages("first")}
    \cup (SourceImages("first") \X SourceImages("second"))

\* an img a script inserts into the page
AddedImage == [SourceImage("added", FALSE, 0) EXCEPT !.loading = "lazy", !.top = 1200,
                                                     !.parentTop = 1200]

IsNewNode(img) == img.id \notin Elements

InCarousel(img) == img.carouselVisits > 0

\* addedNodes of one mutation record: an img of the page attached again, the
\* inserted img, or a carousel container attached again with its imgs
AddedNodes ==
  {<<dom[i]>> : i \in 1..Len(dom)} \cup {<<AddedImage>>, SelectSeq(dom, InCarousel)}

\* the MutationObserver callback
MutationCallback(s, nodes) == IF s.isActive THEN analyzeImages(nodes, s) ELSE s

Mutation ==
  /\ \E nodes \in AddedNodes :
       /\ dom' = dom \o SelectSeq(nodes, IsNewNode)
       /\ Commit(MutationCallback(This, nodes))
  /\ lastOp' = "mutation"
  /\ UNCHANGED <<timerVars, hasPO, observers, toggles, paints, sinceActivation,
                 input, output, serviceVars>>

SourcesInit ==
  /\ ServiceConstructed
  /\ dom \in SourcePages
  /\ Constructed
  /\ hasPO = FALSE
  /\ input = [img |-> BaseEl, env |-> Env]
  /\ output = <<>>

SourcesNext ==
  \/ Activate
  \/ Deactivate
  \/ Mutation
  \/ SettleFire
  \/ PollFire
  \/ PollStopFire
  \/ Tick

SpecSources == SourcesInit /\ [][SourcesNext]_vars

\* C26: every img is counted once (totalImages is the number of records), a
\* mutation never re-classifies a tracked img, and a mutation delivered while
\* the engine is inactive changes neither records nor counters.
C26_ClassifiedOnce ==
  [][/\ performanceData'.totalImages = Cardinality(DOMAIN images')
     /\ lastOp' = "mutation" =>
          /\ \A i \in DOMAIN images : i \in DOMAIN images' /\ images'[i] = images[i]
          /\ ~isActive => UNCHANGED <<images, backgroundImages, performanceData>>]_vars

\* an active engine tracks, each counted once, an img delivered by the image
\* scan, the picture scan and two carousel scans and then again by a
\* mutation, and the img a later mutation inserted
C26_Witness ==
  /\ isActive /\ lastOp = "mutation"
  /\ \E i \in 1..Len(dom) :
       dom[i].inPicture /\ dom[i].carouselVisits = 2 /\ dom[i].id \in DOMAIN images
  /\ "added" \in DOMAIN images
  /\ performanceData.totalImages = Len(dom)

\* C27: totalImages is the number of tracked elements, image records and
\* background-image records together.
C27_TotalCountsElements ==
  performanceData.totalImages =
    Cardinality(DOMAIN images) + Cardinality(DOMAIN backgroundImages)

TrackedRecords ==
  {images[i] : i \in DOMAIN images} \cup {backgroundImages[i] : i \in DOMAIN backgroundImages}

\* C28: no tracked record is below-fold with final strategy 'eager' or
\* 'lazy'; so its display score does not depend on its position.
C28_NoBelowFoldEagerOrLazy ==
  \A r \in TrackedRecords :
    /\ r.position = "below-fold" => r.strategy \notin {"eager", "lazy"}
    /\ calculateScore(r) = calculateScore([r EXCEPT !.position = "unknown"])

\* the eager icon and the script-driven lazy image, both below the fold with
\* dimensions, are tracked as 'issue' and 'optimized'
C28_Witness ==
  /\ {"icon", "jsLazy"} \subseteq DOMAIN images
  /\ images["icon"].loading = "eager" /\ images["icon"].position = "below-fold"
  /\ images["icon"].strategy = "issue"
  /\ images["jsLazy"].library # NoLibrary /\ images["jsLazy"].position = "below-fold"
  /\ images["jsLazy"].strategy = "optimized"

(***************************************************************************)
(* The background service and its tabs.  handleToggle is followed await by *)
(* await; a sendMessage and the handling of its response are one step.     *)
(***************************************************************************)
engineIdle ==
  UNCHANGED <<engineVars, timerVars, hasPO, observers, toggles, paints,
              sinceActivation, input, output, dom>>

\* the runtime.onMessage listener of the tab's content script is in place
Listening(t) == scripts[t] \in {"inactive", "active"}

\* the content script's answer to 'toggle': toggle() flips isActive
Toggled(v) == IF v = "active" THEN "inactive" ELSE "active"

Reported(v) == IF v = "active" THEN "true" ELSE "false"

\* handleToggle up to the ping: no answer sends it to injectContentScript
ToggleRequested(t) ==
  /\ request = NoRequest
  /\ scripts[t] # "closed"
  /\ request' = [tab |-> t, pc |-> IF Listening(t) THEN "toggle" ELSE "inject"]
  /\ lastOp' = "request"
  /\ UNCHANGED <<activeTabs, scripts, reply>>
  /\ engineIdle

\* injectContentScript and the 100 ms wait: tabs.get throws for a removed
\* tab; the injected script constructs the optimizer at once or, while the
\* document is loading, only on DOMContentLoaded
Injected(pcFrom, pcTo) ==
  /\ request.pc = pcFrom
  /\ IF scripts[request.tab] = "closed"
     THEN /\ request' = NoRequest
          /\ reply' = "error"
          /\ UNCHANGED scripts
     ELSE /\ request' = [request EXCEPT !.pc = pcTo]
          /\ \E v \in {"absent", "inactive"} :
               scripts' = IF Listening(request.tab) THEN scripts
                          ELSE [scripts EXCEPT ![request.tab] = v]
          /\ UNCHANGED reply
  /\ lastOp' = "inject"
  /\ UNCHANGED activeTabs
  /\ engineIdle

\* sendMessage({action: 'toggle'}) of the try block and its response
ToggleSent ==
  /\ request.pc = "toggle"
  /\ IF Listening(request.tab)
     THEN /\ scripts' = [scripts EXCEPT ![request.tab] = Toggled(@)]
          /\ activeTabs' = IF scripts'[request.tab] = "active"
                           THEN activeTabs \cup {request.tab}
                           ELSE activeTabs \ {request.tab}
          /\ reply' = Reported(scripts'[request.tab])
          /\ request' = NoRequest
     ELSE /\ request' = [request EXCEPT !.pc = "retryInject"]
          /\ UNCHANGED <<scripts, activeTabs, reply>>
  /\ lastOp' = "toggle"
  /\ engineIdle

\* the second sendMessage, in the catch block, and its response
ToggleSentAgain ==
  /\ request.pc = "retryToggle"
  /\ IF Listening(request.tab)
     THEN /\ scripts' = [scripts EXCEPT ![request.tab] = Toggled(@)]
          /\ activeTabs' = IF scripts'[request.tab] = "active"
                           THEN activeTabs \cup {request.tab}
                           ELSE activeTabs
          /\ reply' = Reported(scripts'[request.tab])
     ELSE /\ reply' = "error"
          /\ UNCHANGED <<scripts, activeTabs>>
  /\ request' = NoRequest
  /\ lastOp' = "retry"
  /\ engineIdle

\* the tab loads another document: the content script of the old one is gone
Navigated(t) ==
  /\ scripts[t] # "closed"
  /\ \E v \in {"absent", "inactive"} : scripts' = [scripts EXCEPT ![t] = v]
  /\ lastOp' = "navigate"
  /\ UNCHANGED <<activeTabs, request, reply>>
  /\ engineIdle

\* tabs.onUpdated with status 'complete': activateForTab
TabComplete(t) ==
  /\ scripts[t] # "closed"
  /\ scripts' = IF t \in activeTabs /\ Listening(t)
                THEN [scripts EXCEPT ![t] = Toggled(@)] ELSE scripts
  /\ lastOp' = "complete:" \o t
  /\ UNCHANGED <<activeTabs, request, reply>>
  /\ engineIdle

\* tabs.onRemoved
TabRemoved(t) ==
  /\ scripts[t] # "closed"
  /\ scripts' = [scripts EXCEPT ![t] = "closed"]
  /\ activeTabs' = activeTabs \ {t}
  /\ lastOp' = "removed"
  /\ UNCHANGED <<request, reply>>
  /\ engineIdle

BackgroundInit ==
  /\ ServiceConstructed
  /\ dom = FullPage
  /\ Constructed
  /\ hasPO = FALSE
  /\ input = [img |-> BaseEl, env |-> Env]
  /\ output = <<>>

BackgroundNext ==
  \/ \E t \in Tabs : ToggleRequested(t)
  \/ Injected("inject", "toggle")
  \/ ToggleSent
  \/ Injected("retryInject", "retryToggle")
  \/ ToggleSentAgain
  \/ \E t \in Tabs : Navigated(t)
  \/ \E t \in Tabs : TabComplete(t)
  \/ \E t \in Tabs : TabRemoved(t)

SpecBackground == BackgroundInit /\ [][BackgroundNext]_vars

\* C29: when handleToggle has answered with the content script's isActive,
\* the tab is in activeTabs exactly if that isActive is true; when it has
\* answered with an error, activeTabs is as before; and a removed tab is not
\* in activeTabs.
C29_ActiveTabsMirrorsReply ==
  [][/\ (request # NoRequest /\ request' = NoRequest) =>
          /\ reply' \in {"true", "false"} =>
               (request.tab \in activeTabs' <=> reply' = "true")
          /\ reply' = "error" => activeTabs' = activeTabs
     /\ \A t \in Tabs : scripts'[t] = "closed" => t \notin activeTabs']_vars

\* C30: after tabs.onUpdated 'complete' for a tab in activeTabs has been
\* handled, the content script of the tab is active and the tab is still in
\* activeTabs.
C30_CompleteReactivates ==
  [][\A t \in Tabs :
       (lastOp' = "complete:" \o t /\ t \in activeTabs) =>
         (scripts'[t] = "active" /\ t \in activeTabs')]_vars

=============================================================================
